---- MODULE Spec2Model ----
(***************************************************************************)
(* A model of crypto_fetcher.py: fetch_crypto_data (a bounded retry loop   *)
(* around one HTTP GET), save_to_excel (column projection, timestamp and   *)
(* spreadsheet write) and main (fetch, then export).                       *)
(*                                                                         *)
(* Three specifications share the actions:                                 *)
(*   SpecFetch   fetch_crypto_data(max_retries) called on its own;         *)
(*   SpecExport  save_to_excel(data) called repeatedly on one snapshot;    *)
(*   SpecMain    main().                                                   *)
(***************************************************************************)
EXTENDS Integers, Sequences, FiniteSets, TLC

VARIABLES
    caller,          \* which entry point drives the run: "fetch", "export", "main"
    pc,              \* position in the code
    max_retries,     \* fetch_crypto_data's parameter
    attempt,         \* the loop variable of line 20
    response,        \* what requests.get produced for the current attempt
    log,             \* the requests, sleeps and returns of the fetcher, in order
    fetch_ret,       \* "pending", "none" (None) or "data"
    data,            \* the snapshot: fetch's return value / save_to_excel's argument
    clock,           \* the last reading of datetime.now(), in seconds
    fs,              \* the condition of the filesystem the run meets
    dir_exists,      \* whether the output directory exists
    files,           \* the spreadsheet stored under each date's file name
    file_path,       \* save_to_excel's local: the date the file name encodes
    df,              \* save_to_excel's local: the table
    columns_to_keep, \* save_to_excel's local: the list of line 61
    warnings,        \* the columns warned about at line 69, in order
    save_ret,        \* "pending", "none" (None) or "path"
    raised,          \* an exception that left save_to_excel uncaught
    prev,            \* the outcome of the call of save_to_excel before the last
    last,            \* the outcome of the last completed call of save_to_excel
    n_saves,         \* calls of save_to_excel made so far
    reported         \* main's final console line: "none", "nodata", "success", "failed"

vars == <<caller, pc, max_retries, attempt, response, log, fetch_ret, data,
          clock, fs, dir_exists, files, file_path, df, columns_to_keep,
          warnings, save_ret, raised, prev, last, n_saves, reported>>

fetchVars == <<max_retries, attempt, response, log, fetch_ret>>
saveVars == <<clock, dir_exists, files, file_path, df, columns_to_keep,
              warnings, save_ret, raised, prev, last, n_saves>>

----------------------------------------------------------------------------
(* Bounds of the model. *)

MaxRetries == 3     \* the largest max_retries tried
MaxRecords == 3     \* the longest snapshot
MaxClock == 2       \* the clock reads 0..MaxClock
DayLen == 2         \* clock readings per calendar day
MaxSaves == 2       \* save_to_excel is called at most this often on one snapshot

----------------------------------------------------------------------------
(* Data. *)

\* line 61-64: the allow-list, in the order the code writes it
AllowList == <<"id", "symbol", "name", "current_price", "market_cap",
               "total_volume", "price_change_percentage_24h">>

Range(s) == {s[i] : i \in 1..Len(s)}

\* A field of the API's records that the allow-list does not name.
ExtraField == "image"

\* The order in which the API writes the fields of a record.
ApiFields == <<"id", "symbol", "name", "image", "current_price", "market_cap",
               "total_volume", "price_change_percentage_24h">>

\* A cell that no record filled (pandas' NaN).
NaN == 0

\* A MarketRecord: the fields it has; every field's value is the record's tag.
Record(tag, keys) == [tag |-> tag, keys |-> keys]

\* The snapshots tried: n records over a common set of fields K (always with
\* the extra field); the last record may lack market_cap while the others
\* have it, so that a column can be present and partly empty.
SnapshotOf(K, n, sparse) ==
    [i \in 1..n |->
        Record(i, IF sparse /\ i = n
                    THEN (K \cup {ExtraField}) \ {"market_cap"}
                    ELSE K \cup {ExtraField})]

Snapshots ==
    {SnapshotOf(K, n, sp) :
        K \in SUBSET Range(AllowList), n \in 0..MaxRecords, sp \in BOOLEAN}

----------------------------------------------------------------------------
(* fetch_crypto_data *)

DefaultMaxRetries == 3      \* line 7
RateLimitDelay == 60        \* line 32
RetryDelay == 5             \* lines 36 and 39

\* The status codes tried: success, rate limit, and two other statuses.
Statuses == {200, 429, 404, 500}

NoResponse == [kind |-> "none", status |-> 0, parses |-> FALSE, body |-> <<>>]

\* What requests.get can produce: it raises, or it returns a response with a
\* status code and a body; a body either parses as a JSON list or makes
\* response.json() / len(data) raise.
Responses ==
    {[kind |-> "raised", status |-> 0, parses |-> FALSE, body |-> <<>>]}
    \cup {[kind |-> "http", status |-> s, parses |-> FALSE, body |-> <<>>] :
            s \in Statuses}
    \cup {[kind |-> "http", status |-> 200, parses |-> TRUE, body |-> b] :
            b \in Snapshots}

\* Mutant: the parse loses the last object of the body.
ParseJsonDropsLast(r) ==
    IF r.body = <<>> THEN r.body ELSE SubSeq(r.body, 1, Len(r.body) - 1)

\* line 27: response.json()
ParseJson(r) == r.body

\* Lines 26-29 are reached and complete: status 200 and a body that parses.
Succeeds(r) == r.kind = "http" /\ r.status = 200 /\ r.parses

\* Lines 37-39 handle the attempt: requests.get raised, or line 27/28 did.
RaisesInTry(r) == r.kind = "raised" \/ (r.kind = "http" /\ r.status = 200 /\ ~r.parses)

\* Mutant: every failure, a 429 too, is followed by the short pause.
DelayAlwaysShort(r) == RetryDelay

\* lines 30-39: the pause that follows a failed attempt
Delay(r) ==
    IF r.kind = "http" /\ r.status = 429 THEN RateLimitDelay ELSE RetryDelay

\* Mutant: no sleep after the last attempt.
SleepEventsNotAfterLast(att, r) ==
    IF att + 1 < max_retries THEN <<(<<"sleep", Delay(r)>>)>> ELSE <<>>

\* lines 32, 36, 39: time.sleep, called in every failing branch of every attempt
SleepEvents(att, r) == <<(<<"sleep", Delay(r)>>)>>

\* Mutant: the loop runs once more than max_retries.
InRangeOffByOne(att, m) == att <= m

\* line 20: for attempt in range(max_retries): another iteration follows
InRange(att, m) == att < m

\* The position a return of fetch_crypto_data leads to.
AfterFetch == IF caller = "main" THEN "m_check" ELSE "done"

\* lines 20-24: the next iteration issues the request
FetchRequest ==
    /\ pc = "f_loop"
    /\ InRange(attempt, max_retries)
    /\ \E r \in Responses :
        /\ response' = r
        /\ log' = log \o <<(<<"request", attempt + 1>>)>>
                      \o (IF r.kind = "http" THEN <<(<<"status", r.status>>)>>
                                             ELSE <<>>)
    /\ pc' = "f_resp"
    /\ UNCHANGED <<caller, max_retries, attempt, fetch_ret, data, fs, reported>>
    /\ UNCHANGED saveVars

\* lines 26-29: status 200, the body is parsed and returned
FetchSuccess ==
    /\ pc = "f_resp"
    /\ Succeeds(response)
    /\ data' = ParseJson(response)
    /\ fetch_ret' = "data"
    /\ log' = Append(log, <<"return", Len(ParseJson(response))>>)
    /\ pc' = AfterFetch
    /\ UNCHANGED <<caller, max_retries, attempt, response, fs, reported>>
    /\ UNCHANGED saveVars

\* what every failing branch does after its prints: sleep, then the next iteration
FailedAttempt(events) ==
    /\ log' = log \o events \o SleepEvents(attempt, response)
    /\ attempt' = attempt + 1
    /\ pc' = "f_loop"
    /\ UNCHANGED <<caller, max_retries, response, fetch_ret, data, fs, reported>>
    /\ UNCHANGED saveVars

\* lines 30-32: status 429
FetchRateLimited ==
    /\ pc = "f_resp"
    /\ response.kind = "http" /\ response.status = 429
    /\ FailedAttempt(<<>>)

\* lines 33-36: any other status
FetchErrorStatus ==
    /\ pc = "f_resp"
    /\ response.kind = "http" /\ response.status \notin {200, 429}
    /\ FailedAttempt(<<>>)

\* lines 37-39: an exception raised inside the try block
FetchException ==
    /\ pc = "f_resp"
    /\ RaisesInTry(response)
    /\ FailedAttempt(<<(<<"exception", 0>>)>>)

\* lines 41-42: the loop ran out of attempts
FetchExhausted ==
    /\ pc = "f_loop"
    /\ ~InRange(attempt, max_retries)
    /\ fetch_ret' = "none"
    /\ log' = Append(log, <<"return", -1>>)
    /\ pc' = AfterFetch
    /\ UNCHANGED <<caller, max_retries, attempt, response, data, fs, reported>>
    /\ UNCHANGED saveVars

FetchNext ==
    \/ FetchRequest
    \/ FetchSuccess
    \/ FetchRateLimited
    \/ FetchErrorStatus
    \/ FetchException
    \/ FetchExhausted

----------------------------------------------------------------------------
(* save_to_excel *)

NoTable == [cols |-> <<>>, rows |-> <<>>]
NoFile == [exists |-> FALSE, table |-> NoTable]
NoCall == [ret |-> "pending", path |-> -1, keep |-> <<>>, table |-> NoTable,
           cause |-> "none"]

Dates == 0..(MaxClock \div DayLen)

\* The filesystem a run meets: it works, the directory cannot be created, the
\* file cannot be written, or the written file is gone when line 81 looks.
FsConditions == {"ok", "no_mkdir", "no_write", "vanishes"}

\* line 53: strftime("%Y-%m-%d")
Today(t) == t \div DayLen

\* line 75: strftime("%Y-%m-%d %H:%M:%S")
FormatTimestamp(t) == <<t \div DayLen, t % DayLen>>

\* The fields that occur in some record of the snapshot.
KeysOf(d) == UNION {d[i].keys : i \in 1..Len(d)}

\* line 60: pd.DataFrame(data): one column per field seen, one row per record,
\* NaN where a record lacks the field
DataFrame(d) ==
    [cols |-> SelectSeq(ApiFields, LAMBDA c : c \in KeysOf(d)),
     rows |-> [i \in 1..Len(d) |->
                 [c \in KeysOf(d) |-> IF c \in d[i].keys THEN d[i].tag ELSE NaN]]]

\* list.remove(x): the list without its first x
RECURSIVE RemoveFirst(_, _)
RemoveFirst(s, x) ==
    IF s = <<>> THEN <<>>
    ELSE IF Head(s) = x THEN Tail(s)
    ELSE <<Head(s)>> \o RemoveFirst(Tail(s), x)

\* lines 67-70: the for loop over columns_to_keep that removes from the list it
\* iterates: the iterator holds an index into the list, so after a removal the
\* element that moved into the removed one's place is never visited.
\* i is the iterator's index (from 1), st the list and the warnings so far.
RECURSIVE CheckColumns(_, _, _)
CheckColumns(st, present, i) ==
    IF i > Len(st.keep) THEN st
    ELSE IF st.keep[i] \notin present
         THEN CheckColumns([keep |-> RemoveFirst(st.keep, st.keep[i]),
                            warned |-> Append(st.warned, st.keep[i])],
                           present, i + 1)
         ELSE CheckColumns(st, present, i + 1)

\* Mutant: the list lives on between calls, as the last call left it.
FreshColumnsKeptBetweenCalls == IF last.ret = "pending" THEN AllowList ELSE last.keep

\* line 61-64: columns_to_keep is a fresh list in every call
FreshColumns == AllowList

\* line 72: df[columns_to_keep] raises KeyError when a listed column is missing
KeyError(tbl, keep) == \E c \in Range(keep) : c \notin Range(tbl.cols)

\* line 72: df[columns_to_keep]: the listed columns, in the list's order
Select(tbl, keep) ==
    [cols |-> keep,
     rows |-> [i \in 1..Len(tbl.rows) |-> [c \in Range(keep) |-> tbl.rows[i][c]]]]

\* Mutant: the clock is read anew for every row.
WithTimestampPerRow(tbl, t) ==
    [cols |-> Append(tbl.cols, "timestamp"),
     rows |-> [i \in 1..Len(tbl.rows) |->
                 [c \in Range(tbl.cols) \cup {"timestamp"} |->
                    IF c = "timestamp" THEN FormatTimestamp(t + i - 1)
                                       ELSE tbl.rows[i][c]]]]

\* line 75: df['timestamp'] = <one string>: a new last column, the same value
\* in every row
WithTimestamp(tbl, t) ==
    [cols |-> Append(tbl.cols, "timestamp"),
     rows |-> [i \in 1..Len(tbl.rows) |->
                 [c \in Range(tbl.cols) \cup {"timestamp"} |->
                    IF c = "timestamp" THEN FormatTimestamp(t) ELSE tbl.rows[i][c]]]]

\* Mutant: the handler catches the KeyError of the projection only.
CaughtKeyErrorOnly(cause) == cause = "KeyError"

\* line 88: except Exception catches whatever the try block raises
Caught(cause) == TRUE

\* The position a return of save_to_excel leads to.
AfterSave == IF caller = "main" THEN "m_report" ELSE "s_call"

\* The call returns r: bookkeeping of the last two completed calls.
Returns(r, path, keep, tbl, cause) ==
    /\ save_ret' = r
    /\ prev' = last
    /\ last' = [ret |-> r, path |-> path, keep |-> keep, table |-> tbl,
                cause |-> cause]
    /\ pc' = AfterSave
    /\ raised' = FALSE

\* lines 88-90: the handler prints the error and returns None; an exception it
\* did not catch would leave the function
Except(keep, tbl, cause) ==
    IF Caught(cause)
    THEN Returns("none", -1, keep, tbl, cause)
    ELSE /\ raised' = TRUE
         /\ pc' = "crashed"
         /\ UNCHANGED <<save_ret, prev, last>>

\* lines 50-57: makedirs, then the file name from today's date
SaveBegin ==
    /\ pc = "s_begin"
    /\ IF fs = "no_mkdir" /\ ~dir_exists
       THEN /\ Except(<<>>, NoTable, "makedirs")
            /\ UNCHANGED <<clock, dir_exists, file_path>>
       ELSE /\ dir_exists' = TRUE
            /\ \E t \in clock..MaxClock :
                 /\ clock' = t
                 /\ file_path' = Today(t)
            /\ pc' = "s_project"
            /\ UNCHANGED <<save_ret, prev, last, raised>>
    /\ UNCHANGED <<files, df, columns_to_keep, warnings, n_saves>>
    /\ UNCHANGED <<caller, data, fs, reported>>
    /\ UNCHANGED fetchVars

\* lines 60-72: the table, the column check and the projection
SaveProject ==
    /\ pc = "s_project"
    /\ LET frame == DataFrame(data)
           st == CheckColumns([keep |-> FreshColumns, warned |-> <<>>],
                              Range(frame.cols), 1)
       IN /\ columns_to_keep' = st.keep
          /\ warnings' = st.warned
          /\ IF KeyError(frame, st.keep)
             THEN /\ df' = frame
                  /\ Except(st.keep, frame, "KeyError")
             ELSE /\ df' = Select(frame, st.keep)
                  /\ pc' = "s_write"
                  /\ UNCHANGED <<save_ret, prev, last, raised>>
    /\ UNCHANGED <<clock, dir_exists, files, file_path, n_saves>>
    /\ UNCHANGED <<caller, data, fs, reported>>
    /\ UNCHANGED fetchVars

\* lines 75-78: the timestamp column, then the write, which replaces the file
SaveWrite ==
    /\ pc = "s_write"
    /\ \E t \in clock..MaxClock :
         /\ clock' = t
         /\ df' = WithTimestamp(df, t)
    /\ IF fs = "no_write"
       THEN /\ Except(columns_to_keep, df', "to_excel")
            /\ UNCHANGED files
       ELSE /\ files' = [files EXCEPT ![file_path] = [exists |-> TRUE, table |-> df']]
            /\ pc' = "s_verify"
            /\ UNCHANGED <<save_ret, prev, last, raised>>
    /\ UNCHANGED <<dir_exists, file_path, columns_to_keep, warnings, n_saves>>
    /\ UNCHANGED <<caller, data, fs, reported>>
    /\ UNCHANGED fetchVars

\* lines 81-87: the path when the file exists, None otherwise
SaveVerify ==
    /\ pc = "s_verify"
    /\ files' = IF fs = "vanishes" THEN [files EXCEPT ![file_path] = NoFile]
                                   ELSE files
    /\ IF files'[file_path].exists
       THEN Returns("path", file_path, columns_to_keep, df, "none")
       ELSE Returns("none", -1, columns_to_keep, df, "missing")
    /\ UNCHANGED <<clock, dir_exists, file_path, df, columns_to_keep, warnings, n_saves>>
    /\ UNCHANGED <<caller, data, fs, reported>>
    /\ UNCHANGED fetchVars

SaveNext ==
    \/ SaveBegin
    \/ SaveProject
    \/ SaveWrite
    \/ SaveVerify

\* The entry into save_to_excel: its locals are new in every call.
EnterSave ==
    /\ pc' = "s_begin"
    /\ n_saves' = n_saves + 1
    /\ save_ret' = "pending"
    /\ file_path' = -1
    /\ df' = NoTable
    /\ columns_to_keep' = <<>>
    /\ warnings' = <<>>
    /\ UNCHANGED <<clock, dir_exists, files, raised, prev, last>>

\* save_to_excel(data) called directly, again and again on the same snapshot
SaveCall ==
    /\ pc = "s_call"
    /\ n_saves < MaxSaves
    /\ EnterSave
    /\ UNCHANGED <<caller, data, fs, reported>>
    /\ UNCHANGED fetchVars

----------------------------------------------------------------------------
(* main *)

\* line 99: fetch_crypto_data() with its default
MainFetch ==
    /\ pc = "m_start"
    /\ max_retries' = DefaultMaxRetries
    /\ attempt' = 0
    /\ pc' = "f_loop"
    /\ UNCHANGED <<caller, response, log, fetch_ret, data, fs, reported>>
    /\ UNCHANGED saveVars

\* Mutant: only None stops main, an empty list does not.
NoDataOnlyNone == fetch_ret = "none"

\* line 101: not data or len(data) == 0
NoData == fetch_ret = "none" \/ Len(data) = 0

\* lines 101-106: stop without data, else call save_to_excel(data)
MainCheck ==
    /\ pc = "m_check"
    /\ IF NoData
       THEN /\ reported' = "nodata"
            /\ pc' = "done"
            /\ UNCHANGED saveVars
       ELSE /\ EnterSave
            /\ UNCHANGED reported
    /\ UNCHANGED <<caller, data, fs>>
    /\ UNCHANGED fetchVars

\* lines 108-111: the final console line
MainReport ==
    /\ pc = "m_report"
    /\ reported' = IF save_ret = "path" THEN "success" ELSE "failed"
    /\ pc' = "done"
    /\ UNCHANGED <<caller, data, fs>>
    /\ UNCHANGED fetchVars
    /\ UNCHANGED saveVars

----------------------------------------------------------------------------
(* Initial states and specifications. *)

InitFetcher ==
    /\ attempt = 0
    /\ response = NoResponse
    /\ log = <<>>
    /\ fetch_ret = "pending"

InitSaver ==
    /\ clock = 0
    /\ files = [d \in Dates |-> NoFile]
    /\ file_path = -1
    /\ df = NoTable
    /\ columns_to_keep = <<>>
    /\ warnings = <<>>
    /\ save_ret = "pending"
    /\ raised = FALSE
    /\ prev = NoCall
    /\ last = NoCall
    /\ n_saves = 0
    /\ reported = "none"

\* The filesystem of a run: where the directory cannot be made it is not there.
InitFs ==
    /\ fs \in FsConditions
    /\ dir_exists \in IF fs = "no_mkdir" THEN {FALSE} ELSE BOOLEAN

\* fetch_crypto_data(max_retries) called directly
InitFetch ==
    /\ caller = "fetch"
    /\ pc = "f_loop"
    /\ max_retries \in (-1)..MaxRetries
    /\ data = <<>>
    /\ fs = "ok"
    /\ dir_exists = FALSE
    /\ InitFetcher
    /\ InitSaver

\* save_to_excel(data) called directly
InitExport ==
    /\ caller = "export"
    /\ pc = "s_call"
    /\ max_retries = DefaultMaxRetries
    /\ data \in Snapshots
    /\ InitFs
    /\ InitFetcher
    /\ InitSaver

\* main()
InitMain ==
    /\ caller = "main"
    /\ pc = "m_start"
    /\ max_retries = DefaultMaxRetries
    /\ data = <<>>
    /\ InitFs
    /\ InitFetcher
    /\ InitSaver

ExportNext == SaveCall \/ SaveNext

MainNext == MainFetch \/ FetchNext \/ MainCheck \/ SaveNext \/ MainReport

SpecFetch == InitFetch /\ [][FetchNext]_vars

SpecExport == InitExport /\ [][ExportNext]_vars

SpecMain == InitMain /\ [][MainNext]_vars

----------------------------------------------------------------------------
(* What the log of the fetcher says. *)

Last(s) == s[Len(s)]

IsRequest(e) == e[1] = "request"
IsSleep(e) == e[1] = "sleep"

\* How many requests were issued.
Requests(l) == Len(SelectSeq(l, IsRequest))

\* The durations slept, in order.
Sleeps(l) == [i \in 1..Len(SelectSeq(l, IsSleep)) |-> SelectSeq(l, IsSleep)[i][2]]

\* The pause each reported failure calls for, in order: 60 for a status 429,
\* 5 for another non-200 status and for an exception.
FailureDelay(e) ==
    IF e[1] = "status" /\ e[2] = 429 THEN 60 ELSE 5

IsFailure(e) == (e[1] = "status" /\ e[2] # 200) \/ e[1] = "exception"

ExpectedSleeps(l) ==
    [i \in 1..Len(SelectSeq(l, IsFailure)) |-> FailureDelay(SelectSeq(l, IsFailure)[i])]

\* The number of iterations of range(m).
Attempts(m) == IF m > 0 THEN m ELSE 0

\* The attempt in progress has got its response and not yet acted on it.
Pending == pc = "f_resp"

----------------------------------------------------------------------------
(* Claims about fetch_crypto_data, under SpecFetch. *)

\* C1 as stated: the first attempt that gets HTTP 200 ends the fetch - whatever
\* follows a status 200 in the log is the return of the parsed body, and
\* nothing follows that.
C1_AnyStatus200Ends ==
    \A i \in 1..Len(log) :
        log[i] = <<"status", 200>> =>
            \/ i = Len(log) /\ Pending
            \/ i + 1 = Len(log) /\ log[i + 1][1] = "return" /\ log[i + 1][2] >= 0

\* C1 as amended: the first attempt that gets HTTP 200 with a body that parses
\* ends the fetch - the function returns the parsed body of that response, with
\* as many records as the body has objects, and no request and no sleep is
\* issued after it.
C1_Parsed200Ends ==
    (Succeeds(response) /\ ~Pending) =>
        /\ pc = "done"
        /\ fetch_ret = "data"
        /\ data = response.body
        /\ Len(data) = Len(response.body)
        /\ Len(log) >= 3
        /\ Last(log) = <<"return", Len(response.body)>>
        /\ log[Len(log) - 1] = <<"status", 200>>
        /\ log[Len(log) - 2] = <<"request", attempt + 1>>
        /\ Requests(log) = attempt + 1
        /\ Len(Sleeps(log)) = attempt

\* C1 witness: a 200 with a parsable body of two or more records, after a
\* failed attempt, has ended a fetch.
C1_Witness ==
    /\ pc = "done"
    /\ fetch_ret = "data"
    /\ max_retries >= 1
    /\ attempt >= 1
    /\ Len(data) >= 2

\* C2 as stated: a run whose first status 200 arrives at attempt k has slept
\* exactly k-1 times when it ends.
C2_SleepsBeforeFirst200 ==
    \A i \in 1..Len(log) :
        (/\ log[i] = <<"status", 200>>
         /\ \A j \in 1..(i - 1) : log[j] # <<"status", 200>>
         /\ pc = "done")
        => Len(Sleeps(log)) = log[i - 1][2] - 1

\* C2 as amended: every failed attempt, a 200 whose body does not parse
\* included, is followed by its pause before the next request: 60 seconds
\* after a 429, 5 seconds after any other failure; so a run whose first 200
\* with a parsable body arrives at attempt k has slept exactly the k-1 pauses
\* of the failed attempts before it, in order.
C2_SleepPerFailure ==
    /\ ~Pending => Sleeps(log) = ExpectedSleeps(log)
    /\ \A i \in 2..Len(log) : IsRequest(log[i]) => IsSleep(log[i - 1])
    /\ \A i \in 1..Len(log) : IsSleep(log[i]) => i > 1 /\ IsFailure(log[i - 1])
    /\ (pc = "done" /\ fetch_ret = "data") =>
          /\ Len(Sleeps(log)) = attempt
          /\ Requests(log) = attempt + 1

\* C2 witness: 429, 429, 200 with max_retries = 3 has returned the data after
\* two sleeps of 60 seconds.
C2_Witness ==
    /\ pc = "done"
    /\ fetch_ret = "data"
    /\ max_retries = 3
    /\ Len(data) >= 1
    /\ Sleeps(log) = <<60, 60>>
    /\ Requests(log) = 3

\* C3: when no attempt succeeds the function returns None after exactly
\* max_retries requests (none when max_retries is not positive) and nothing
\* follows the return; a run never issues more requests than that.
C3_ExhaustedReturnsNone ==
    /\ Requests(log) <= Attempts(max_retries)
    /\ pc = "done" => (fetch_ret = "none" <=> ~Succeeds(response))
    /\ pc = "done" => (fetch_ret = "data" \/ fetch_ret = "none")
    /\ (pc = "done" /\ fetch_ret = "none") =>
          /\ Requests(log) = Attempts(max_retries)
          /\ Last(log) = <<"return", -1>>
          /\ \A i \in 1..(Len(log) - 1) : log[i][1] # "return"

\* C3 witness: three attempts, none of which succeeded, and None returned.
C3_Witness ==
    /\ pc = "done"
    /\ fetch_ret = "none"
    /\ max_retries = 3
    /\ Requests(log) = 3

\* C10: a sleep follows every failed attempt, the last one too - when all
\* max_retries attempts fail there are max_retries sleeps, each of its
\* category's length, and the final one lies between the last request and the
\* return of None; with max_retries <= 0 there is no request and no sleep.
C10_SleepAfterLastAttempt ==
    (pc = "done" /\ fetch_ret = "none") =>
        IF max_retries <= 0
        THEN log = <<(<<"return", -1>>)>>
        ELSE /\ Len(Sleeps(log)) = max_retries
             /\ Sleeps(log) = ExpectedSleeps(log)
             /\ Last(log) = <<"return", -1>>
             /\ IsSleep(log[Len(log) - 1])
             /\ \E i \in 1..(Len(log) - 2) :
                    /\ log[i] = <<"request", max_retries>>
                    /\ \A j \in (i + 1)..Len(log) : ~IsRequest(log[j])

\* C10 witness: all of three attempts failed, the last with a 429, and the
\* fetcher slept 60 seconds before it returned None.
C10_Witness ==
    /\ pc = "done"
    /\ fetch_ret = "none"
    /\ max_retries = 3
    /\ Len(log) >= 2
    /\ log[Len(log) - 1] = <<"sleep", 60>>
    /\ Sleeps(log) = <<5, 5, 60>>

----------------------------------------------------------------------------
(* Claims about save_to_excel, under SpecExport. *)

\* The columns of the incoming data.
Present == KeysOf(data)

\* The allow-listed columns the data has, in the allow-list's order.
Surviving == SelectSeq(AllowList, LAMBDA c : c \in Present)

\* The allow-listed columns the data lacks, in the allow-list's order.
Absent == SelectSeq(AllowList, LAMBDA c : c \notin Present)

\* The last call got past makedirs, so lines 60-72 ran.
Projected == last.ret # "pending" /\ last.cause # "makedirs"

\* A table without its timestamp column.
StripTimestamp(tbl) ==
    [cols |-> SelectSeq(tbl.cols, LAMBDA c : c # "timestamp"),
     rows |-> [i \in 1..Len(tbl.rows) |->
                 [c \in (DOMAIN tbl.rows[i]) \ {"timestamp"} |-> tbl.rows[i][c]]]]

\* C4: for every set of allow-listed columns present in the records, each absent
\* allow-listed column is warned about and excluded, and the exported table has
\* exactly the present allow-listed columns, in allow-list order, plus the
\* timestamp.
C4_SchemaIsIntersection ==
    Len(data) >= 1 =>
    /\ (pc \in {"s_write", "s_verify"} \/ Projected) =>
          /\ columns_to_keep = Surviving
          /\ warnings = Absent
    /\ (last.ret # "pending" /\ last.cause \in {"none", "KeyError"}) =>
          /\ last.cause = "none"
          /\ last.table.cols = Append(Surviving, "timestamp")

\* C5: when none of the records has market_cap and the filesystem works, the export
\* succeeds whatever other allow-listed columns are present, and its header is
\* the present allow-listed columns plus the timestamp, without market_cap.
C5_MissingMarketCapTolerated ==
    (Len(data) >= 1 /\ "market_cap" \notin Present /\ fs = "ok" /\ last.ret # "pending") =>
        /\ last.ret = "path"
        /\ files[last.path].exists
        /\ files[last.path].table.cols = Append(Surviving, "timestamp")
        /\ "market_cap" \notin Range(files[last.path].table.cols)

\* The snapshot has all seven allow-listed columns.
AllPresent == Range(AllowList) \subseteq Present

\* What a written table must be for a snapshot with all columns, stamped ts.
ExpectedTable(tbl, ts) ==
    /\ tbl.cols = Append(AllowList, "timestamp")
    /\ Len(tbl.rows) = Len(data)
    /\ \A i \in 1..Len(data) :
        /\ DOMAIN tbl.rows[i] = Range(AllowList) \cup {"timestamp"}
        /\ \A c \in Range(AllowList) :
              tbl.rows[i][c] = IF c \in data[i].keys THEN data[i].tag ELSE NaN
        /\ tbl.rows[i]["timestamp"] = ts

\* C8: for a snapshot of n records with all seven allow-listed columns the
\* table written has n rows, one per record in the snapshot's order, the seven
\* columns plus the timestamp, and in every row the timestamp of the one clock
\* reading of line 75; with a working filesystem the export succeeds.
C8_FullSnapshotTable ==
    AllPresent =>
        /\ pc = "s_verify" =>
              /\ ExpectedTable(df, FormatTimestamp(clock))
              /\ files[file_path] = [exists |-> TRUE, table |-> df]
        /\ last.ret = "path" =>
              /\ Len(last.table.rows) = Len(data)
              /\ Len(data) >= 1
              /\ ExpectedTable(last.table, last.table.rows[1]["timestamp"])
              /\ files[last.path].exists
              /\ ExpectedTable(files[last.path].table,
                               files[last.path].table.rows[1]["timestamp"])
        /\ (fs = "ok" /\ last.ret # "pending") => last.ret = "path"

\* C8 witness: a snapshot of three records with all columns, one of them
\* lacking a value, has just been written.
C8_Witness ==
    /\ AllPresent
    /\ Len(data) = 3
    /\ pc = "s_verify"
    /\ clock > 0
    /\ \E i \in 1..Len(data) : "market_cap" \notin data[i].keys

\* C9: two calls of save_to_excel on the same snapshot, under the same
\* filesystem condition, end the same way, with the same surviving columns and
\* the same rows apart from the timestamp column; the first call leaves
\* nothing behind that changes the second.
C9_ExportIdempotent ==
    prev.ret # "pending" =>
        /\ last.ret = prev.ret
        /\ last.cause = prev.cause
        /\ last.keep = prev.keep
        /\ StripTimestamp(last.table) = StripTimestamp(prev.table)

\* C9 witness: two successful exports of a snapshot that lacks allow-listed
\* columns, at different clock readings.
C9_Witness ==
    /\ prev.ret = "path"
    /\ last.ret = "path"
    /\ Len(last.keep) < Len(AllowList)
    /\ last.table # prev.table

----------------------------------------------------------------------------
(* Claims about main, under SpecMain. *)

\* C6: save_to_excel is called at most once in a run, and only after the
\* fetcher has returned a snapshot that is not empty; when the fetcher returns
\* None or an empty list main reports that and ends without calling
\* save_to_excel and without writing a file.
C6_NoExportWithoutData ==
    /\ n_saves <= 1
    /\ n_saves = 1 => (fetch_ret = "data" /\ Len(data) >= 1 /\ Last(log)[1] = "return")
    /\ pc \in {"s_begin", "s_project", "s_write", "s_verify", "m_report"} => n_saves = 1
    /\ (fetch_ret = "none" \/ (fetch_ret = "data" /\ Len(data) = 0)) =>
          /\ n_saves = 0
          /\ last = NoCall
          /\ \A d \in Dates : ~files[d].exists
          /\ pc \in {"m_check", "done"}
          /\ pc = "done" => reported = "nodata"

\* C6 witness: status 500 on each of the three default attempts, and main has
\* ended reporting that there is no data.
C6_Witness ==
    /\ pc = "done"
    /\ reported = "nodata"
    /\ fetch_ret = "none"
    /\ Len(SelectSeq(log, LAMBDA e : e = <<"status", 500>>)) = 3

\* C7: no exception leaves save_to_excel - a failure of makedirs, of the
\* projection or of the write makes it return None; it returns the path only
\* when the file exists at line 81; and main ends normally after either.
C7_ExportFailuresCaught ==
    /\ ~raised
    /\ pc # "crashed"
    /\ last.cause \in {"makedirs", "KeyError", "to_excel", "missing"} => last.ret = "none"
    /\ last.ret = "path" => (last.cause = "none" /\ files[last.path].exists)
    /\ last.ret \in {"none", "path"} =>
          /\ pc \in {"m_report", "done"}
          /\ pc = "done" => reported = (IF last.ret = "path" THEN "success" ELSE "failed")
    /\ pc \in {"m_start", "f_loop", "f_resp", "m_check", "s_begin", "s_project",
               "s_write", "s_verify", "m_report", "done"}

\* C7 witness: the write failed, save_to_excel returned None, and main has
\* ended reporting the failure.
C7_Witness ==
    /\ pc = "done"
    /\ reported = "failed"
    /\ last.cause = "to_excel"
    /\ last.ret = "none"

====
